---- MODULE Spec2Model ----
(***************************************************************************)
(* The encryption / key-management core of the password vault:             *)
(*   src/storage/encryption.py        EncryptionManager                    *)
(*   src/storage/password_storage.py  Password, PasswordStorage            *)
(*   src/storage/notes_storage.py     NotesStorage                         *)
(*   src/ui/settings_tab.py           the settings handlers that call them *)
(*                                                                         *)
(* The files of the vault directory (app_settings.json, encryption_key.key,*)
(* passwords.json, secure_notes.json) and the live storage objects are the *)
(* state.  Python values are modelled as follows.                          *)
(*   bytes   a sequence of chunks; a chunk is a plain byte, the sealed     *)
(*           output of one cipher call, or the text of a JSON document     *)
(*   str     a record: plain text, or the base64 text of some bytes        *)
(*   random  a record [kind, id]; every draw takes a fresh id              *)
(*   call    a record [ok, val, err]: the value returned or the exception  *)
(***************************************************************************)
EXTENDS Integers, Sequences, FiniteSets, TLC

VARIABLES
    settings,    \* app_settings.json: the value of "encryption_algorithm"
    keyFile,     \* encryption_key.key
    pwFile,      \* passwords.json
    notesFile,   \* secure_notes.json
    ps,          \* the live PasswordStorage objects, by slot
    ns,          \* the live NotesStorage object (with its EncryptionManager)
    probe,       \* the last blob a caller got from EncryptionManager.encrypt
    nextKey,     \* number of random keys drawn so far
    nextId,      \* number of record ids (uuid4) drawn so far
    last,        \* the last call made and how it ended
    faults,      \* whether file writes may fail in this environment
    exchangeFile, \* the file export_passwords writes and import_passwords reads
    returned     \* the count the last import_passwords returned

vars == <<settings, keyFile, pwFile, notesFile, ps, ns, probe, nextKey, nextId, last, faults,
          exchangeFile, returned>>

---------------------------------------------------------------------------
(* Bounds of the model *)

MaxKeys == 2
MaxIds == 2
NumNonces == 1
MaxNotes == 1
MaxPlainLen == 1

(* Program constants *)

NonceLen == 12

---------------------------------------------------------------------------
(* Algorithm tags *)

\* A closed set that let one more tag in.
SupportedAlgorithmsWidened == {"fernet", "aes-gcm", "chacha20", "blowfish"}

SupportedAlgorithms == {"fernet", "aes-gcm", "chacha20"}

\* A tag outside the closed set, as a hand-edited settings file may hold.
UnsupportedTag == "blowfish"

AlgorithmTags == SupportedAlgorithms \cup {UnsupportedTag}

---------------------------------------------------------------------------
(* Random material and keys *)

NoKey == [kind |-> "none", id |-> 0]

\* Fernet.generate_key(): a url-safe base64 token of 32 random bytes.
FernetGenerateKey(n) == [kind |-> "token", id |-> n]

\* secrets.token_bytes(32), (16), (12)
TokenBytes32(n) == [kind |-> "raw32", id |-> n]
TokenBytes16(n) == [kind |-> "raw16", id |-> n]
TokenBytes12(n) == [kind |-> "raw12", id |-> n]

\* A key file written before the structured format existed.
LegacyKey == FernetGenerateKey(0)

\* File content that is neither JSON nor a Fernet key.
Garbage == [kind |-> "garbage", id |-> 0]

---------------------------------------------------------------------------
(* bytes *)

Chunk(t, v, scheme, key, nonce, pt, doc) ==
    [t |-> t, v |-> v, scheme |-> scheme, key |-> key, nonce |-> nonce, pt |-> pt, doc |-> doc]

Byte(n) == Chunk("byte", n, "", NoKey, <<>>, <<>>, <<>>)

\* The ciphertext-and-tag (or token) one cipher call returns.
Sealed(scheme, key, nonce, pt) == Chunk("sealed", 0, scheme, key, nonce, pt, <<>>)

\* json.dumps(x).encode("utf-8")
JsonBytes(doc) == <<Chunk("json", 0, "", NoKey, <<>>, <<>>, doc)>>

\* Python slices b[:n] and b[n:]
Take(b, n) == SubSeq(b, 1, IF Len(b) < n THEN Len(b) ELSE n)
Drop(b, n) == SubSeq(b, n + 1, Len(b))

\* secrets.token_bytes(12) for the per-call nonce
NonceBytes(n) == [i \in 1..NonceLen |-> Byte(n)]

Nonces == 1..NumNonces

---------------------------------------------------------------------------
(* Results of calls *)

Ok(v) == [ok |-> TRUE, val |-> v, err |-> ""]
Raise(e) == [ok |-> FALSE, val |-> <<>>, err |-> e]

---------------------------------------------------------------------------
(* str *)

Text(s) == [txt |-> s, b64 |-> <<>>]
EmptyStr == Text("")

\* base64.b64encode(b).decode()
B64Encode(b) == [txt |-> "base64", b64 |-> b]

\* base64.b64decode(s)
B64Decode(s) == IF s.txt = "base64" THEN Ok(s.b64) ELSE Raise("binascii.Error")

DecryptPlaceholder == "[Error: Could not decrypt]"
LoadPlaceholder == "[Decryption Error]"
Redacted == "[REDACTED]"

PlainValues == {"pw1", "pw2"}

Utf8Code(s) ==
    CASE s = "pw1" -> 1
      [] s = "pw2" -> 2
      [] s = DecryptPlaceholder -> 3
      [] s = LoadPlaceholder -> 4
      [] s = Redacted -> 5
      [] OTHER -> 0

Texts == PlainValues \cup {DecryptPlaceholder, LoadPlaceholder, Redacted}

\* An encoding that sent every non-empty text to the same bytes.
StrEncodeLossy(s) == IF s.txt = "" THEN <<>> ELSE <<Byte(1)>>

\* str.encode()
StrEncode(s) == IF s.txt = "" THEN <<>> ELSE <<Byte(Utf8Code(s.txt))>>

\* bytes.decode()
BytesDecode(b) ==
    IF b = <<>> THEN Ok(EmptyStr)
    ELSE IF Len(b) = 1 /\ b[1].t = "byte" /\ \E s \in Texts : Utf8Code(s) = b[1].v
         THEN Ok(Text(CHOOSE s \in Texts : Utf8Code(s) = b[1].v))
         ELSE Raise("UnicodeDecodeError")

---------------------------------------------------------------------------
(* The ciphers of the cryptography package, as the code calls them *)

NoCipher == [kind |-> "none", key |-> NoKey]

\* A Fernet constructor that took any bytes as a key.
FernetAnyBytes(key) ==
    IF key.kind \in {"token", "garbage"} THEN Ok([kind |-> "Fernet", key |-> key])
    ELSE Raise("ValueError")

\* Fernet(key): the key must be 32 url-safe base64-encoded bytes.
Fernet(key) ==
    IF key.kind = "token" THEN Ok([kind |-> "Fernet", key |-> key])
    ELSE Raise("ValueError")

\* AESGCM(key): the key must be 128, 192 or 256 bits.
AESGCM(key) ==
    IF key.kind = "raw32" THEN Ok([kind |-> "AESGCM", key |-> key])
    ELSE Raise("ValueError")

\* ChaCha20Poly1305(key): the key must be 32 bytes.
ChaCha20Poly1305(key) ==
    IF key.kind = "raw32" THEN Ok([kind |-> "ChaCha20Poly1305", key |-> key])
    ELSE Raise("ValueError")

\* cipher.encrypt(data): Fernet takes one argument, an AEAD cipher three.
CipherEncrypt1(cipher, data) ==
    IF cipher.kind = "Fernet" THEN Ok(<<Sealed("Fernet", cipher.key, <<>>, data)>>)
    ELSE Raise("TypeError")

\* cipher.encrypt(nonce, data, None)
CipherEncrypt3(cipher, nonce, data) ==
    IF cipher.kind \in {"AESGCM", "ChaCha20Poly1305"}
    THEN Ok(<<Sealed(cipher.kind, cipher.key, nonce, data)>>)
    ELSE Raise("TypeError")

\* cipher.decrypt(token)
CipherDecrypt1(cipher, token) ==
    IF cipher.kind # "Fernet" THEN Raise("TypeError")
    ELSE IF Len(token) = 1 /\ token[1].t = "sealed" /\ token[1].scheme = "Fernet"
            /\ token[1].key = cipher.key
         THEN Ok(token[1].pt)
         ELSE Raise("InvalidToken")

\* cipher.decrypt(nonce, ciphertext, None)
CipherDecrypt3(cipher, nonce, ciphertext) ==
    IF cipher.kind \notin {"AESGCM", "ChaCha20Poly1305"} THEN Raise("TypeError")
    ELSE IF Len(ciphertext) = 1 /\ ciphertext[1].t = "sealed"
            /\ ciphertext[1].scheme = cipher.kind /\ ciphertext[1].key = cipher.key
            /\ ciphertext[1].nonce = nonce
         THEN Ok(ciphertext[1].pt)
         ELSE Raise("InvalidTag")

---------------------------------------------------------------------------
(* encryption_key.key *)

\* base64.b64encode(k).decode("utf-8") and base64.b64decode(s) of key material
KeyB64Encode(k) == [b64 |-> k]
KeyB64Decode(s) == s.b64

\* A field that json.dumps did not write (the material was None).
NoField == KeyB64Encode(NoKey)

NoJson == [key |-> NoField, algorithm |-> "", salt |-> NoField, nonce |-> NoField]

AbsentKeyFile == [kind |-> "absent", raw |-> NoKey, json |-> NoJson]
RawKeyFile(content) == [kind |-> "raw", raw |-> content, json |-> NoJson]
JsonKeyFile(key_data) == [kind |-> "json", raw |-> NoKey, json |-> key_data]

\* The bytes of the file, as handed to Fernet(file_content).
FileContent(kf) == IF kf.kind = "raw" THEN kf.raw ELSE [kind |-> "jsontext", id |-> 0]

NoWrite == [do |-> FALSE, content |-> AbsentKeyFile]

\* A _save_raw_key that wrote the structured format instead.
SaveRawKeyStructured(key) ==
    [do |-> TRUE,
     content |-> JsonKeyFile([key |-> KeyB64Encode(key), algorithm |-> "fernet",
                              salt |-> NoField, nonce |-> NoField])]

\* _save_raw_key: the file holds the key and nothing else.
SaveRawKey(key) == [do |-> TRUE, content |-> RawKeyFile(key)]

\* A _save_key_material that left the algorithm out of the document.
SaveKeyMaterialUntagged(algorithm, key, salt, nonce) ==
    [do |-> TRUE,
     content |-> JsonKeyFile([key |-> KeyB64Encode(key),
                              algorithm |-> "",
                              salt |-> IF salt # NoKey THEN KeyB64Encode(salt) ELSE NoField,
                              nonce |-> IF nonce # NoKey THEN KeyB64Encode(nonce) ELSE NoField])]

\* _save_key_material: the structured format; salt and nonce only when truthy.
SaveKeyMaterial(algorithm, key, salt, nonce) ==
    [do |-> TRUE,
     content |-> JsonKeyFile([key |-> KeyB64Encode(key),
                              algorithm |-> algorithm,
                              salt |-> IF salt # NoKey THEN KeyB64Encode(salt) ELSE NoField,
                              nonce |-> IF nonce # NoKey THEN KeyB64Encode(nonce) ELSE NoField])]

\* What _initialize_encryption hands back: the exception it raised (or ""),
\* the cipher, self.salt, self.nonce, whether a random key was drawn, and the
\* write of the key file it asked for.
KeyLoad(raised, cipher, salt, nonce, fresh, write) ==
    [raised |-> raised, cipher |-> cipher, salt |-> salt, nonce |-> nonce,
     fresh |-> fresh, write |-> write]

\* The generate path (the except branch and the no-file branch are the same
\* text).  With a tag outside the closed set `key` is unbound when
\* _save_key_material(key, ...) is reached.
GenerateKey(algorithm, n, salt, nonce) ==
    IF algorithm = "fernet"
    THEN KeyLoad("", Fernet(FernetGenerateKey(n)).val, salt, nonce, TRUE,
                 SaveRawKey(FernetGenerateKey(n)))
    ELSE IF algorithm = "aes-gcm"
    THEN KeyLoad("", AESGCM(TokenBytes32(n)).val, TokenBytes16(n), TokenBytes12(n), TRUE,
                 SaveKeyMaterial(algorithm, TokenBytes32(n), TokenBytes16(n), TokenBytes12(n)))
    ELSE IF algorithm = "chacha20"
    THEN KeyLoad("", ChaCha20Poly1305(TokenBytes32(n)).val, TokenBytes16(n), TokenBytes12(n), TRUE,
                 SaveKeyMaterial(algorithm, TokenBytes32(n), TokenBytes16(n), TokenBytes12(n)))
    ELSE KeyLoad("UnboundLocalError", NoCipher, salt, nonce, FALSE, NoWrite)

\* The cipher the structured branch builds for the configured algorithm.
CipherForJson(algorithm, kf, n) ==
    IF algorithm = "fernet" THEN Fernet(FileContent(kf))
    ELSE IF algorithm = "aes-gcm" THEN AESGCM(KeyB64Decode(kf.json.key))
    ELSE IF algorithm = "chacha20" THEN ChaCha20Poly1305(KeyB64Decode(kf.json.key))
    ELSE Fernet(FernetGenerateKey(n))

\* EncryptionManager._initialize_encryption.  `algorithm` is the configured
\* tag, `n` the id of the random draw, `readable` whether open(key_file)
\* succeeds.
EM_initialize_encryption(algorithm, kf, n, readable) ==
    IF kf.kind = "absent" THEN GenerateKey(algorithm, n, NoKey, NoKey)
    ELSE IF ~readable THEN GenerateKey(algorithm, n, NoKey, NoKey)
    ELSE IF kf.kind = "json"
    THEN LET salt == KeyB64Decode(kf.json.salt)
             nonce == KeyB64Decode(kf.json.nonce)
             c == CipherForJson(algorithm, kf, n)
         IN  IF c.ok
             THEN KeyLoad("", c.val, salt, nonce, algorithm \notin SupportedAlgorithms, NoWrite)
             ELSE GenerateKey(algorithm, n, salt, nonce)
    ELSE LET c == Fernet(FileContent(kf))
         IN  IF c.ok
             THEN KeyLoad("", c.val, NoKey, NoKey, FALSE, NoWrite)
             ELSE GenerateKey(algorithm, n, NoKey, NoKey)

\* An EncryptionManager object.
NoEM == [encryption_algorithm |-> "", cipher |-> NoCipher, salt |-> NoKey, nonce |-> NoKey]

Engine(algorithm, load) ==
    [encryption_algorithm |-> algorithm, cipher |-> load.cipher,
     salt |-> load.salt, nonce |-> load.nonce]

\* An encrypt that handed empty data to the cipher as well.
EM_encrypt_unguarded(em, data, nonce) ==
    IF em.encryption_algorithm = "fernet" THEN CipherEncrypt1(em.cipher, data)
    ELSE IF em.encryption_algorithm \in {"aes-gcm", "chacha20"}
    THEN LET r == CipherEncrypt3(em.cipher, nonce, data)
         IN  IF r.ok THEN Ok(nonce \o r.val) ELSE r
    ELSE CipherEncrypt1(em.cipher, data)

\* EncryptionManager.encrypt; `nonce` is the secrets.token_bytes(12) it draws.
EM_encrypt(em, data, nonce) ==
    IF data = <<>> THEN Ok(<<>>)
    ELSE IF em.encryption_algorithm = "fernet" THEN CipherEncrypt1(em.cipher, data)
    ELSE IF em.encryption_algorithm \in {"aes-gcm", "chacha20"}
    THEN LET r == CipherEncrypt3(em.cipher, nonce, data)
         IN  IF r.ok THEN Ok(nonce \o r.val) ELSE r
    ELSE CipherEncrypt1(em.cipher, data)

\* EncryptionManager.decrypt
EM_decrypt(em, encrypted_data) ==
    IF encrypted_data = <<>> THEN Ok(<<>>)
    ELSE IF em.encryption_algorithm = "fernet" THEN CipherDecrypt1(em.cipher, encrypted_data)
    ELSE IF em.encryption_algorithm \in {"aes-gcm", "chacha20"}
    THEN CipherDecrypt3(em.cipher, Take(encrypted_data, NonceLen), Drop(encrypted_data, NonceLen))
    ELSE CipherDecrypt1(em.cipher, encrypted_data)

---------------------------------------------------------------------------
(* PasswordStorage *)

Slots == {"storage", "generator"}

\* The fields of a Password other than id and value (website, username,
\* category, notes, created, modified) travel together as `meta`.
Metas == {"site1"}

Password(id, value, meta) == [id |-> id, value |-> value, meta |-> meta]

NoPS == [alive |-> FALSE, encryption_algorithm |-> "", cipher |-> NoCipher,
         salt |-> NoKey, nonce |-> NoKey, passwords |-> <<>>]

\* A JSON file of records: absent, complete, or cut short (open(..., 'w')
\* has truncated it and json.dump has not finished).
AbsentFile == [exists |-> FALSE, torn |-> FALSE, entries |-> <<>>]
RecordFile(entries) == [exists |-> TRUE, torn |-> FALSE, entries |-> entries]
TornFile == [exists |-> TRUE, torn |-> TRUE, entries |-> <<>>]

\* PasswordStorage._initialize_encryption: the text of the EncryptionManager
\* method, after re-reading the configured algorithm.
PS_initialize_encryption(algorithm, kf, n, readable) ==
    EM_initialize_encryption(algorithm, kf, n, readable)

\* PasswordStorage._encrypt
PS_encrypt(self, data, nonce) ==
    IF data.txt = "" THEN Ok(EmptyStr)
    ELSE LET data_bytes == StrEncode(data)
             encrypted ==
                 IF self.encryption_algorithm = "fernet"
                 THEN CipherEncrypt1(self.cipher, data_bytes)
                 ELSE IF self.encryption_algorithm \in {"aes-gcm", "chacha20"}
                 THEN LET r == CipherEncrypt3(self.cipher, nonce, data_bytes)
                      IN  IF r.ok THEN Ok(nonce \o r.val) ELSE r
                 ELSE CipherEncrypt1(self.cipher, data_bytes)
         IN  IF encrypted.ok THEN Ok(B64Encode(encrypted.val)) ELSE Raise(encrypted.err)

\* The try block of PasswordStorage._decrypt.
PS_decrypt_try(self, encrypted_data) ==
    IF encrypted_data.txt = "" THEN Ok(EmptyStr)
    ELSE LET encrypted_bytes == B64Decode(encrypted_data)
         IN  IF ~encrypted_bytes.ok THEN Raise(encrypted_bytes.err)
             ELSE LET decrypted_bytes ==
                          IF self.encryption_algorithm = "fernet"
                          THEN CipherDecrypt1(self.cipher, encrypted_bytes.val)
                          ELSE IF self.encryption_algorithm \in {"aes-gcm", "chacha20"}
                          THEN CipherDecrypt3(self.cipher,
                                              Take(encrypted_bytes.val, NonceLen),
                                              Drop(encrypted_bytes.val, NonceLen))
                          ELSE CipherDecrypt1(self.cipher, encrypted_bytes.val)
                  IN  IF decrypted_bytes.ok
                      THEN LET d == BytesDecode(decrypted_bytes.val)
                           IN  IF d.ok THEN Ok(d.val) ELSE Raise(d.err)
                      ELSE Raise(decrypted_bytes.err)

\* A _decrypt without its except clause: the exception reaches the caller.
PS_decrypt_raising(self, encrypted_data) == PS_decrypt_try(self, encrypted_data)

\* PasswordStorage._decrypt: `except Exception` returns the placeholder text.
PS_decrypt(self, encrypted_data) ==
    LET r == PS_decrypt_try(self, encrypted_data)
    IN  IF r.ok THEN r ELSE Ok(Text(DecryptPlaceholder))

\* PasswordStorage._load_passwords: self.passwords after the call; a file
\* that is not JSON ends in the empty list.
PS_load_passwords(self, file) ==
    IF ~file.exists THEN <<>>
    ELSE IF file.torn THEN <<>>
    ELSE [k \in 1..Len(file.entries) |->
             LET r == PS_decrypt(self, file.entries[k].value)
             IN  [file.entries[k] EXCEPT
                     !.value = IF r.ok THEN r.val ELSE Text(LoadPlaceholder)]]

\* PasswordStorage._save_passwords up to the open(): the entries it is about
\* to write, or the exception _encrypt raised.  nonces[k] is the nonce drawn
\* for the k-th record.
PS_encrypted_passwords(self, nonces) ==
    LET enc(k) == PS_encrypt(self, self.passwords[k].value, NonceBytes(nonces[k]))
    IN  IF \E k \in 1..Len(self.passwords) : ~enc(k).ok
        THEN Raise((enc(CHOOSE k \in 1..Len(self.passwords) : ~enc(k).ok)).err)
        ELSE Ok([k \in 1..Len(self.passwords) |->
                    [self.passwords[k] EXCEPT !.value = enc(k).val]])

\* The nonces one _save_passwords draws: one for each non-empty value under
\* aes-gcm or chacha20, none otherwise (the unused entries are held at 1).
NonceDraws(self) ==
    {nonces \in [1..Len(self.passwords) -> Nonces] :
        \A k \in 1..Len(self.passwords) :
            (\/ self.encryption_algorithm \notin {"aes-gcm", "chacha20"}
             \/ self.passwords[k].value.txt = "") => nonces[k] = 1}

\* A re-keying that switched to the new cipher without saving its key.
PS_new_key_unsaved(self, algorithm, n) ==
    IF algorithm = "fernet"
    THEN KeyLoad("", Fernet(FernetGenerateKey(n)).val, self.salt, self.nonce, TRUE, NoWrite)
    ELSE IF algorithm = "aes-gcm"
    THEN KeyLoad("", AESGCM(TokenBytes32(n)).val, TokenBytes16(n), TokenBytes12(n), TRUE, NoWrite)
    ELSE IF algorithm = "chacha20"
    THEN KeyLoad("", ChaCha20Poly1305(TokenBytes32(n)).val, TokenBytes16(n), TokenBytes12(n),
                 TRUE, NoWrite)
    ELSE KeyLoad("UnboundLocalError", self.cipher, self.salt, self.nonce, FALSE, NoWrite)

\* The new cipher and key material of rotate_encryption_key and
\* update_encryption_algorithm (the same text, for the given algorithm).
PS_new_key(self, algorithm, n) ==
    IF algorithm = "fernet"
    THEN KeyLoad("", Fernet(FernetGenerateKey(n)).val, self.salt, self.nonce, TRUE,
                 SaveRawKey(FernetGenerateKey(n)))
    ELSE IF algorithm = "aes-gcm"
    THEN KeyLoad("", AESGCM(TokenBytes32(n)).val, TokenBytes16(n), TokenBytes12(n), TRUE,
                 SaveKeyMaterial(algorithm, TokenBytes32(n), TokenBytes16(n), TokenBytes12(n)))
    ELSE IF algorithm = "chacha20"
    THEN KeyLoad("", ChaCha20Poly1305(TokenBytes32(n)).val, TokenBytes16(n), TokenBytes12(n), TRUE,
                 SaveKeyMaterial(algorithm, TokenBytes32(n), TokenBytes16(n), TokenBytes12(n)))
    ELSE KeyLoad("UnboundLocalError", self.cipher, self.salt, self.nonce, FALSE, NoWrite)

---------------------------------------------------------------------------
(* NotesStorage *)

Note(id, content) == [id |-> id, content |-> content]

NoNS == [alive |-> FALSE, em |-> NoEM, notes |-> <<>>]

AbsentBlob == [exists |-> FALSE, data |-> <<>>]
BlobFile(data) == [exists |-> TRUE, data |-> data]

\* NotesStorage._load_notes: every exception ends in the notes read so far.
NS_load_notes(em, file) ==
    IF ~file.exists THEN <<>>
    ELSE IF file.data = <<>> THEN <<>>
    ELSE LET decrypted_data == EM_decrypt(em, file.data)
         IN  IF decrypted_data.ok /\ Len(decrypted_data.val) = 1
                /\ decrypted_data.val[1].t = "json"
             THEN decrypted_data.val[1].doc
             ELSE <<>>

\* NotesStorage._save_notes up to the open(): the bytes it is about to write.
NS_encrypted_notes(self, nonce) == EM_encrypt(self.em, JsonBytes(self.notes), nonce)

---------------------------------------------------------------------------
(* The state machine *)

\* Inputs
Plaintexts == {[i \in 1..k |-> Byte(i)] : k \in 0..MaxPlainLen}
InputValues == {Text(v) : v \in PlainValues \cup {""}}
NoteContents == {"n1"}

\* Outcomes of one file operation: it succeeds, or (where faults are
\* allowed) it raises IOError.
IOOutcomes == IF faults THEN BOOLEAN ELSE {TRUE}

\* What a constructor finds where the key file is to be: nothing, a
\* structured document, a Fernet token or other bytes.
KeyFileFound(kf) == IF kf.kind = "raw" THEN kf.raw.kind ELSE kf.kind

Constructors == {"PasswordStorage", "NotesStorage"}

\* The record of a call: `found` is the key file a constructor started from.
Call(op, slot, outcome, fresh) ==
    [op |-> op, slot |-> slot, outcome |-> outcome, fresh |-> fresh,
     found |-> IF op \in Constructors THEN KeyFileFound(keyFile) ELSE ""]

NoProbe == [made |-> FALSE, pt |-> <<>>, blob |-> <<>>, engine |-> NoEM,
            decrypted |-> FALSE, ok |-> FALSE, val |-> <<>>, err |-> ""]

Init ==
    /\ settings \in AlgorithmTags
    /\ keyFile \in {AbsentKeyFile, RawKeyFile(LegacyKey), RawKeyFile(Garbage)}
    /\ pwFile = AbsentFile
    /\ notesFile = AbsentBlob
    /\ ps = [s \in Slots |-> NoPS]
    /\ ns = NoNS
    /\ probe = NoProbe
    /\ nextKey = 0
    /\ nextId = 0
    /\ last = Call("init", "", "ok", FALSE)
    /\ faults = FALSE
    /\ exchangeFile = AbsentFile
    /\ returned = 0

\* A random key differs from every key drawn before: the draw is named by
\* its number.
FreshKeyId == nextKey + 1

\* One call that draws a random key when `fresh`.
DrawKey(fresh) ==
    /\ fresh => nextKey < MaxKeys
    /\ nextKey' = IF fresh THEN nextKey + 1 ELSE nextKey

\* uuid.uuid4(): an id that no record has had; named by its draw number.
FreshRecordId == nextId + 1

\* The key file after a write that was asked for and did or did not succeed
\* (_save_raw_key and _save_key_material swallow IOError).
KeyFileAfter(write, wok) == IF write.do /\ wok THEN write.content ELSE keyFile

\* app_settings.json comes to hold the algorithm tag a: the settings tab
\* stores the chosen algorithm, or the file is edited.
SaveSettings(a) ==
    /\ a # settings
    /\ settings' = a
    /\ last' = Call("save_settings", "", "ok", FALSE)
    /\ UNCHANGED <<keyFile, pwFile, notesFile, ps, ns, probe, nextKey, nextId, faults,
                 exchangeFile, returned>>

\* The PasswordStorage object __init__ builds from a key load.
PS_object(algorithm, load, file) ==
    LET self == [alive |-> TRUE, encryption_algorithm |-> algorithm, cipher |-> load.cipher,
                 salt |-> load.salt, nonce |-> load.nonce, passwords |-> <<>>]
    IN  [self EXCEPT !.passwords = PS_load_passwords(self, file)]

\* PasswordStorage.__init__
NewPasswordStorage(s) ==
    \E readable \in IOOutcomes, wok \in IOOutcomes :
        LET load == PS_initialize_encryption(settings, keyFile, FreshKeyId, readable)
        IN  /\ DrawKey(load.fresh)
            /\ keyFile' = KeyFileAfter(load.write, wok)
            /\ ps' = IF load.raised = ""
                     THEN [ps EXCEPT ![s] = PS_object(settings, load, pwFile)]
                     ELSE ps
            /\ last' = Call("PasswordStorage", s,
                            IF load.raised = "" THEN "ok" ELSE load.raised, load.fresh)
            /\ UNCHANGED <<settings, pwFile, notesFile, ns, probe, nextId, faults,
                 exchangeFile, returned>>

\* The record file after _save_passwords: written when every value was
\* encrypted and the write succeeded (IOError is swallowed).
RecordFileAfter(enc, wok) == IF enc.ok /\ wok THEN RecordFile(enc.val) ELSE pwFile

\* PasswordStorage.add_password
AddPassword(s, value, meta) ==
    /\ ps[s].alive
    /\ nextId < MaxIds
    /\ nextId' = nextId + 1
    /\ LET self == [ps[s] EXCEPT
                        !.passwords = Append(@, Password(FreshRecordId, value, meta))]
       IN  \E nonces \in NonceDraws(self), wok \in IOOutcomes :
            LET enc == PS_encrypted_passwords(self, nonces)
            IN  /\ ps' = [ps EXCEPT ![s] = self]
                /\ pwFile' = RecordFileAfter(enc, wok)
                /\ last' = Call("add_password", s, IF enc.ok THEN "ok" ELSE enc.err, FALSE)
    /\ UNCHANGED <<settings, keyFile, notesFile, ns, probe, nextKey, faults,
                 exchangeFile, returned>>

\* PasswordStorage.update_password, for the id of the k-th record
UpdatePassword(s, k, value, meta) ==
    /\ ps[s].alive
    /\ k \in 1..Len(ps[s].passwords)
    /\ LET self == [ps[s] EXCEPT
                        !.passwords[k] = Password(ps[s].passwords[k].id, value, meta)]
       IN  \E nonces \in NonceDraws(self), wok \in IOOutcomes :
            LET enc == PS_encrypted_passwords(self, nonces)
            IN  /\ ps' = [ps EXCEPT ![s] = self]
                /\ pwFile' = RecordFileAfter(enc, wok)
                /\ last' = Call("update_password", s, IF enc.ok THEN "ok" ELSE enc.err, FALSE)
    /\ UNCHANGED <<settings, keyFile, notesFile, ns, probe, nextKey, nextId, faults,
                 exchangeFile, returned>>

\* seq without its k-th element (del seq[k])
Remove(seq, k) == SubSeq(seq, 1, k - 1) \o SubSeq(seq, k + 1, Len(seq))

\* PasswordStorage.delete_password, for the id of the k-th record
DeletePassword(s, k) ==
    /\ ps[s].alive
    /\ k \in 1..Len(ps[s].passwords)
    /\ LET self == [ps[s] EXCEPT !.passwords = Remove(@, k)]
       IN  \E nonces \in NonceDraws(self), wok \in IOOutcomes :
            LET enc == PS_encrypted_passwords(self, nonces)
            IN  /\ ps' = [ps EXCEPT ![s] = self]
                /\ pwFile' = RecordFileAfter(enc, wok)
                /\ last' = Call("delete_password", s, IF enc.ok THEN "ok" ELSE enc.err, FALSE)
    /\ UNCHANGED <<settings, keyFile, notesFile, ns, probe, nextKey, nextId, faults,
                 exchangeFile, returned>>

\* PasswordStorage.rotate_encryption_key
RotateEncryptionKey(s) ==
    /\ ps[s].alive
    /\ LET new == PS_new_key(ps[s], ps[s].encryption_algorithm, FreshKeyId)
           self == [ps[s] EXCEPT !.cipher = new.cipher, !.salt = new.salt,
                                 !.nonce = new.nonce]
       IN  IF new.raised # ""
           THEN /\ last' = Call("rotate_encryption_key", s, new.raised, FALSE)
                /\ UNCHANGED <<keyFile, pwFile, ps, nextKey>>
           ELSE \E nonces \in NonceDraws(self), wok1 \in IOOutcomes, wok2 \in IOOutcomes :
                 LET enc == PS_encrypted_passwords(self, nonces)
                 IN  /\ DrawKey(TRUE)
                     /\ keyFile' = KeyFileAfter(new.write, wok1)
                     /\ ps' = [ps EXCEPT ![s] = self]
                     /\ pwFile' = RecordFileAfter(enc, wok2)
                     /\ last' = Call("rotate_encryption_key", s,
                                     IF enc.ok THEN "ok" ELSE enc.err, TRUE)
    /\ UNCHANGED <<settings, notesFile, ns, probe, nextId, faults,
                 exchangeFile, returned>>

\* PasswordStorage.update_encryption_algorithm
UpdateEncryptionAlgorithm(s, new_algorithm) ==
    /\ ps[s].alive
    /\ IF new_algorithm \notin SupportedAlgorithms
       THEN /\ last' = Call("update_encryption_algorithm", s, "ValueError", FALSE)
            /\ UNCHANGED <<settings, keyFile, pwFile, ps, nextKey>>
       ELSE LET new == PS_new_key(ps[s], new_algorithm, FreshKeyId)
                self == [ps[s] EXCEPT !.encryption_algorithm = new_algorithm,
                                      !.cipher = new.cipher, !.salt = new.salt,
                                      !.nonce = new.nonce]
            IN  \E nonces \in NonceDraws(self), wok1 \in IOOutcomes,
                   wok2 \in IOOutcomes, wok3 \in IOOutcomes :
                 LET enc == PS_encrypted_passwords(self, nonces)
                 IN  /\ DrawKey(TRUE)
                     /\ keyFile' = KeyFileAfter(new.write, wok1)
                     /\ ps' = [ps EXCEPT ![s] = self]
                     /\ pwFile' = RecordFileAfter(enc, wok2)
                     /\ settings' = IF enc.ok /\ wok3 THEN new_algorithm ELSE settings
                     /\ last' = Call("update_encryption_algorithm", s,
                                     IF ~enc.ok THEN enc.err
                                     ELSE IF wok3 THEN "ok" ELSE "IOError", TRUE)
    /\ UNCHANGED <<notesFile, ns, probe, nextId, faults,
                 exchangeFile, returned>>

\* NotesStorage.__init__: EncryptionManager() and _load_notes
NewNotesStorage ==
    \E readable \in IOOutcomes, wok \in IOOutcomes :
        LET load == EM_initialize_encryption(settings, keyFile, FreshKeyId, readable)
        IN  /\ DrawKey(load.fresh)
            /\ keyFile' = KeyFileAfter(load.write, wok)
            /\ ns' = IF load.raised = ""
                     THEN [alive |-> TRUE, em |-> Engine(settings, load),
                           notes |-> NS_load_notes(Engine(settings, load), notesFile)]
                     ELSE ns
            /\ last' = Call("NotesStorage", "",
                            IF load.raised = "" THEN "ok" ELSE load.raised, load.fresh)
            /\ UNCHANGED <<settings, pwFile, notesFile, ps, probe, nextId, faults,
                 exchangeFile, returned>>

\* NotesStorage.add_note: _save_notes prints and re-raises every exception.
AddNote(content) ==
    /\ ns.alive
    /\ Len(ns.notes) < MaxNotes
    /\ \E n \in Nonces, wok \in IOOutcomes :
        LET self == [ns EXCEPT !.notes = Append(@, Note(Len(@) + 1, content))]
            enc == NS_encrypted_notes(self, NonceBytes(n))
        IN  /\ ns' = self
            /\ notesFile' = IF enc.ok /\ wok THEN BlobFile(enc.val) ELSE notesFile
            /\ last' = Call("add_note", "",
                            IF ~enc.ok THEN enc.err ELSE IF wok THEN "ok" ELSE "IOError",
                            FALSE)
    /\ UNCHANGED <<settings, keyFile, pwFile, ps, probe, nextKey, nextId, faults,
                 exchangeFile, returned>>

\* The contents a note is edited to.
NoteEdits == {"n1", "n2"}

\* NotesStorage.update_note, for the id of the k-th note: the note is put in
\* the collection, then _save_notes is called.
UpdateNote(k, content) ==
    /\ ns.alive
    /\ k \in 1..Len(ns.notes)
    /\ \E n \in Nonces, wok \in IOOutcomes :
        LET self == [ns EXCEPT !.notes[k] = Note(ns.notes[k].id, content)]
            enc == NS_encrypted_notes(self, NonceBytes(n))
        IN  /\ ns' = self
            /\ notesFile' = IF enc.ok /\ wok THEN BlobFile(enc.val) ELSE notesFile
            /\ last' = Call("update_note", "",
                            IF ~enc.ok THEN enc.err ELSE IF wok THEN "ok" ELSE "IOError",
                            FALSE)
    /\ UNCHANGED <<settings, keyFile, pwFile, ps, probe, nextKey, nextId, faults,
                   exchangeFile, returned>>

\* NotesStorage.delete_note, for the id of the k-th note: the note is taken
\* out of the collection, then _save_notes is called.
DeleteNote(k) ==
    /\ ns.alive
    /\ k \in 1..Len(ns.notes)
    /\ \E n \in Nonces, wok \in IOOutcomes :
        LET self == [ns EXCEPT !.notes = Remove(@, k)]
            enc == NS_encrypted_notes(self, NonceBytes(n))
        IN  /\ ns' = self
            /\ notesFile' = IF enc.ok /\ wok THEN BlobFile(enc.val) ELSE notesFile
            /\ last' = Call("delete_note", "",
                            IF ~enc.ok THEN enc.err ELSE IF wok THEN "ok" ELSE "IOError",
                            FALSE)
    /\ UNCHANGED <<settings, keyFile, pwFile, ps, probe, nextKey, nextId, faults,
                   exchangeFile, returned>>

\* A caller encrypts p with the EncryptionManager of the notes storage.
Encrypt(p) ==
    /\ ns.alive
    /\ \E n \in Nonces :
        LET r == EM_encrypt(ns.em, p, NonceBytes(n))
        IN  /\ probe' = [NoProbe EXCEPT !.made = r.ok, !.pt = p, !.blob = r.val,
                                        !.engine = ns.em]
            /\ last' = Call("encrypt", "", IF r.ok THEN "ok" ELSE r.err, FALSE)
    /\ UNCHANGED <<settings, keyFile, pwFile, notesFile, ps, ns, nextKey, nextId, faults,
                 exchangeFile, returned>>

\* A caller decrypts the blob it holds with the current EncryptionManager.
Decrypt ==
    /\ ns.alive
    /\ probe.made
    /\ LET r == EM_decrypt(ns.em, probe.blob)
       IN  /\ probe' = [probe EXCEPT !.decrypted = TRUE, !.ok = r.ok, !.val = r.val,
                                     !.err = r.err]
           /\ last' = Call("decrypt", "", IF r.ok THEN "ok" ELSE r.err, FALSE)
    /\ UNCHANGED <<settings, keyFile, pwFile, notesFile, ps, ns, nextKey, nextId, faults,
                 exchangeFile, returned>>

\* An export that wrote the records as they are, whatever the flag.
PS_export_data_plain(self, include_values) == self.passwords

\* PasswordStorage.export_passwords: the entries it is about to write.
PS_export_data(self, include_values) ==
    [k \in 1..Len(self.passwords) |->
        IF include_values THEN self.passwords[k]
        ELSE [self.passwords[k] EXCEPT !.value = Text(Redacted)]]

\* PasswordStorage.export_passwords; an IOError is caught (it returns False).
ExportPasswords(s, include_values) ==
    /\ ps[s].alive
    /\ \E wok \in IOOutcomes :
          /\ exchangeFile' = IF wok THEN RecordFile(PS_export_data(ps[s], include_values))
                              ELSE exchangeFile
          /\ last' = Call("export_passwords", s, IF wok THEN "ok" ELSE "IOError", FALSE)
    /\ UNCHANGED <<settings, keyFile, pwFile, notesFile, ps, ns, probe, nextKey, nextId,
                   faults, returned>>

\* The test of import_passwords that keeps an entry.
NotRedacted(entry) == entry.value # Text(Redacted)

\* The loop of import_passwords from the k-th entry of `data` on.  acc holds
\* self, the record file, imported_count, the number of ids drawn and the
\* exception add_password raised (or ""); `base` is the number of ids drawn
\* before the call.
RECURSIVE PS_import(_, _, _, _, _, _)
PS_import(acc, data, k, base, nonces, wok) ==
    IF k > Len(data) \/ acc.raised # "" THEN acc
    ELSE IF ~NotRedacted(data[k]) THEN PS_import(acc, data, k + 1, base, nonces, wok)
    ELSE LET self == [acc.self EXCEPT
                         !.passwords = Append(@, Password(base + acc.drawn + 1,
                                                          data[k].value, data[k].meta))]
             enc == PS_encrypted_passwords(self, nonces)
         IN  PS_import([self |-> self,
                        file |-> IF enc.ok /\ wok THEN RecordFile(enc.val) ELSE acc.file,
                        imported_count |-> IF enc.ok THEN acc.imported_count + 1
                                           ELSE acc.imported_count,
                        drawn |-> acc.drawn + 1,
                        raised |-> IF enc.ok THEN "" ELSE enc.err],
                       data, k + 1, base, nonces, wok)

\* PasswordStorage.import_passwords: a file that cannot be opened gives 0;
\* an exception of add_password is not caught.
ImportPasswords(s) ==
    /\ ps[s].alive
    /\ IF ~exchangeFile.exists
       THEN /\ returned' = 0
            /\ last' = Call("import_passwords", s, "ok", FALSE)
            /\ UNCHANGED <<ps, pwFile, nextId>>
       ELSE /\ nextId + Len(SelectSeq(exchangeFile.entries, NotRedacted)) <= MaxIds
            /\ \E nonces \in [1..(Len(ps[s].passwords) + Len(exchangeFile.entries)) -> Nonces],
                   wok \in IOOutcomes :
                 LET res == PS_import([self |-> ps[s], file |-> pwFile, imported_count |-> 0,
                                       drawn |-> 0, raised |-> ""],
                                      exchangeFile.entries, 1, nextId, nonces, wok)
                 IN  /\ ps' = [ps EXCEPT ![s] = res.self]
                     /\ pwFile' = res.file
                     /\ nextId' = nextId + res.drawn
                     /\ returned' = IF res.raised = "" THEN res.imported_count ELSE returned
                     /\ last' = Call("import_passwords", s,
                                     IF res.raised = "" THEN "ok" ELSE res.raised, FALSE)
    /\ UNCHANGED <<settings, keyFile, notesFile, ns, probe, nextKey, faults, exchangeFile>>

\* The process ends and every object with it.
ProcessKilled ==
    /\ ps' = [s \in Slots |-> NoPS]
    /\ ns' = NoNS
    /\ probe' = NoProbe

\* add_password when the process is killed inside _save_passwords, after
\* open(storage_file, 'w') has truncated the file and before json.dump has
\* written all of it.
AddPasswordInterrupted(s, value, meta) ==
    /\ ps[s].alive
    /\ nextId < MaxIds
    /\ nextId' = nextId + 1
    /\ LET self == [ps[s] EXCEPT
                        !.passwords = Append(@, Password(FreshRecordId, value, meta))]
       IN  \E nonces \in NonceDraws(self) : PS_encrypted_passwords(self, nonces).ok
    /\ pwFile' = TornFile
    /\ ProcessKilled
    /\ last' = Call("add_password", s, "interrupted", FALSE)
    /\ UNCHANGED <<settings, keyFile, notesFile, nextKey, faults, exchangeFile, returned>>

\* add_note when the process is killed inside _save_notes, after
\* open(notes_file, "wb") has truncated the file and before f.write.
AddNoteInterrupted(content) ==
    /\ ns.alive
    /\ Len(ns.notes) < MaxNotes
    /\ \E n \in Nonces :
          NS_encrypted_notes([ns EXCEPT !.notes = Append(@, Note(Len(@) + 1, content))],
                             NonceBytes(n)).ok
    /\ notesFile' = BlobFile(<<>>)
    /\ ProcessKilled
    /\ last' = Call("add_note", "", "interrupted", FALSE)
    /\ UNCHANGED <<settings, keyFile, pwFile, nextKey, nextId, faults, exchangeFile, returned>>

\* The key file after the write `write`, asked for over the key file kf.
KeyFileWritten(kf, write, wok) == IF write.do /\ wok THEN write.content ELSE kf

\* The number of keys drawn once `draws` more have been drawn.
KeysDrawn(first, second) ==
    nextKey + (IF first THEN 1 ELSE 0) + (IF second THEN 1 ELSE 0)

\* SettingsTab.rotate_encryption_key, the confirmed branch: a PasswordStorage
\* of its own is constructed over the files, rotates the key and is dropped.
\* Every exception ends in show_error.
ConfirmKeyRotation ==
    /\ \E readable \in IOOutcomes, wok0 \in IOOutcomes :
        LET load == PS_initialize_encryption(settings, keyFile, FreshKeyId, readable)
            kf0 == KeyFileWritten(keyFile, load.write, wok0)
            storage == PS_object(settings, load, pwFile)
            new == PS_new_key(storage, storage.encryption_algorithm, KeysDrawn(load.fresh, TRUE))
            self == [storage EXCEPT !.cipher = new.cipher, !.salt = new.salt,
                                    !.nonce = new.nonce]
        IN  IF load.raised # "" \/ new.raised # ""
            THEN /\ KeysDrawn(load.fresh, FALSE) <= MaxKeys
                 /\ nextKey' = KeysDrawn(load.fresh, FALSE)
                 /\ keyFile' = kf0
                 /\ pwFile' = pwFile
                 /\ last' = Call("confirm_key_rotation", "",
                                 IF load.raised # "" THEN load.raised ELSE new.raised,
                                 load.fresh)
            ELSE \E nonces \in NonceDraws(self), wok1 \in IOOutcomes, wok2 \in IOOutcomes :
                  LET enc == PS_encrypted_passwords(self, nonces)
                  IN  /\ KeysDrawn(load.fresh, TRUE) <= MaxKeys
                      /\ nextKey' = KeysDrawn(load.fresh, TRUE)
                      /\ keyFile' = KeyFileWritten(kf0, new.write, wok1)
                      /\ pwFile' = RecordFileAfter(enc, wok2)
                      /\ last' = Call("confirm_key_rotation", "",
                                      IF enc.ok THEN "ok" ELSE enc.err, TRUE)
    /\ UNCHANGED <<settings, notesFile, ps, ns, probe, nextId, faults,
                   exchangeFile, returned>>

\* SettingsTab.save_encryption_algorithm, the confirmed branch: the new
\* algorithm is stored in app_settings.json (_save_settings catches IOError),
\* then a PasswordStorage is constructed, which reads the settings file, and
\* update_encryption_algorithm(new_algorithm) is called on it.  Every
\* exception ends in show_error.
ConfirmAlgorithmChange(new_algorithm) ==
    /\ new_algorithm \in SupportedAlgorithms
    /\ new_algorithm # settings
    /\ \E wokS \in IOOutcomes, readable \in IOOutcomes, wok0 \in IOOutcomes :
        LET saved == IF wokS THEN new_algorithm ELSE settings
            load == PS_initialize_encryption(saved, keyFile, FreshKeyId, readable)
            kf0 == KeyFileWritten(keyFile, load.write, wok0)
            storage == PS_object(saved, load, pwFile)
            new == PS_new_key(storage, new_algorithm, KeysDrawn(load.fresh, TRUE))
            self == [storage EXCEPT !.encryption_algorithm = new_algorithm,
                                    !.cipher = new.cipher, !.salt = new.salt,
                                    !.nonce = new.nonce]
        IN  IF load.raised # ""
            THEN /\ nextKey' = nextKey
                 /\ settings' = saved
                 /\ keyFile' = kf0
                 /\ pwFile' = pwFile
                 /\ last' = Call("confirm_algorithm_change", "", load.raised, FALSE)
            ELSE \E nonces \in NonceDraws(self), wok1 \in IOOutcomes,
                    wok2 \in IOOutcomes, wok3 \in IOOutcomes :
                  LET enc == PS_encrypted_passwords(self, nonces)
                  IN  /\ KeysDrawn(load.fresh, TRUE) <= MaxKeys
                      /\ nextKey' = KeysDrawn(load.fresh, TRUE)
                      /\ keyFile' = KeyFileWritten(kf0, new.write, wok1)
                      /\ pwFile' = RecordFileAfter(enc, wok2)
                      /\ settings' = IF enc.ok /\ wok3 THEN new_algorithm ELSE saved
                      /\ last' = Call("confirm_algorithm_change", "",
                                      IF ~enc.ok THEN enc.err
                                      ELSE IF wok3 THEN "ok" ELSE "IOError", TRUE)
    /\ UNCHANGED <<notesFile, ps, ns, probe, nextId, faults, exchangeFile, returned>>

\* The password vault: one PasswordStorage object at a time over the vault
\* directory; the configured algorithm changes only through
\* update_encryption_algorithm.
Next ==
    \/ NewPasswordStorage("storage")
    \/ \E v \in InputValues, m \in Metas : AddPassword("storage", v, m)
    \/ \E k \in 1..MaxIds, v \in InputValues, m \in Metas : UpdatePassword("storage", k, v, m)
    \/ \E k \in 1..MaxIds : DeletePassword("storage", k)
    \/ RotateEncryptionKey("storage")
    \/ \E a \in AlgorithmTags : UpdateEncryptionAlgorithm("storage", a)

Spec == Init /\ [][Next]_vars

\* The same vault when app_settings.json is also written from outside the
\* storage object (the settings tab, or an edit of the file).
NextSettings ==
    \/ \E a \in AlgorithmTags : SaveSettings(a)
    \/ NewPasswordStorage("storage")
    \/ \E v \in InputValues, m \in Metas : AddPassword("storage", v, m)
    \/ RotateEncryptionKey("storage")
    \/ \E a \in AlgorithmTags : UpdateEncryptionAlgorithm("storage", a)

SpecSettings == Init /\ [][NextSettings]_vars

\* The EncryptionManager alone: key loading, encrypt and decrypt.
NextEngine ==
    \/ \E a \in AlgorithmTags : SaveSettings(a)
    \/ NewNotesStorage
    \/ \E p \in Plaintexts : Encrypt(p)
    \/ Decrypt

SpecEngine == Init /\ [][NextEngine]_vars

\* The two record files of one vault directory: a PasswordStorage and a
\* NotesStorage over the same key file.
NextVault ==
    \/ NewPasswordStorage("storage")
    \/ RotateEncryptionKey("storage")
    \/ \E a \in SupportedAlgorithms : UpdateEncryptionAlgorithm("storage", a)
    \/ NewNotesStorage
    \/ \E c \in NoteContents : AddNote(c)

SpecVault == Init /\ [][NextVault]_vars

\* Saving and loading the two record files: the calls that save, and the
\* constructors that load.
NextSave ==
    \/ NewPasswordStorage("storage")
    \/ \E v \in InputValues, m \in Metas : AddPassword("storage", v, m)
    \/ \E k \in 1..MaxIds : DeletePassword("storage", k)
    \/ NewNotesStorage
    \/ \E c \in NoteContents : AddNote(c)

SpecSave == Init /\ [][NextSave]_vars

\* Saves that the end of the process may cut short, and the next start.
NextCrash ==
    \/ NewPasswordStorage("storage")
    \/ \E v \in InputValues, m \in Metas : AddPassword("storage", v, m)
    \/ \E v \in InputValues, m \in Metas : AddPasswordInterrupted("storage", v, m)
    \/ NewNotesStorage
    \/ \E c \in NoteContents : AddNote(c)
    \/ \E c \in NoteContents : AddNoteInterrupted(c)

SpecCrash == Init /\ [][NextCrash]_vars

\* The same start in an environment where opening a file may fail.
InitFaults ==
    /\ settings \in AlgorithmTags
    /\ keyFile \in {AbsentKeyFile, RawKeyFile(LegacyKey), RawKeyFile(Garbage)}
    /\ pwFile = AbsentFile
    /\ notesFile = AbsentBlob
    /\ ps = [s \in Slots |-> NoPS]
    /\ ns = NoNS
    /\ probe = NoProbe
    /\ nextKey = 0
    /\ nextId = 0
    /\ last = Call("init", "", "ok", FALSE)
    /\ faults = TRUE
    /\ exchangeFile = AbsentFile
    /\ returned = 0

\* The password vault when file operations may raise IOError.
NextFaults ==
    \/ NewPasswordStorage("storage")
    \/ \E v \in InputValues, m \in Metas : AddPassword("storage", v, m)
    \/ RotateEncryptionKey("storage")
    \/ \E a \in SupportedAlgorithms : UpdateEncryptionAlgorithm("storage", a)

SpecFaults == InitFaults /\ [][NextFaults]_vars

\* Export and import of the password records.  A user may hold the
\* marker text itself as a password.
ExchangeValues == {Text("pw1"), EmptyStr, Text(Redacted)}

NextExchange ==
    \/ NewPasswordStorage("storage")
    \/ \E v \in ExchangeValues, m \in Metas : AddPassword("storage", v, m)
    \/ \E include_values \in BOOLEAN : ExportPasswords("storage", include_values)
    \/ ImportPasswords("storage")

SpecExchange == Init /\ [][NextExchange]_vars

\* Loading the record file at a start of the program, after the configured
\* algorithm may have been changed from outside.
NextLoad ==
    \/ \E a \in AlgorithmTags : SaveSettings(a)
    \/ NewPasswordStorage("storage")
    \/ \E v \in InputValues, m \in Metas : AddPassword("storage", v, m)

SpecLoad == Init /\ [][NextLoad]_vars

\* The tabs of the running program: the generator tab and the storage tab
\* each hold a PasswordStorage, the notes tab a NotesStorage, and the
\* settings tab rotates the key through a storage of its own.
TabValues == {Text("pw1")}

NextTabs ==
    \/ \E s \in Slots : NewPasswordStorage(s)
    \/ \E v \in TabValues, m \in Metas : AddPassword("generator", v, m)
    \/ \E k \in 1..MaxIds, v \in TabValues, m \in Metas : UpdatePassword("storage", k, v, m)
    \/ \E k \in 1..MaxIds : DeletePassword("storage", k)
    \/ ConfirmKeyRotation
    \/ NewNotesStorage
    \/ \E c \in NoteContents : AddNote(c)

SpecTabs == Init /\ [][NextTabs]_vars

\* The settings tab changing the algorithm of a vault that one
\* PasswordStorage fills.
NextAlgorithm ==
    \/ NewPasswordStorage("storage")
    \/ \E v \in InputValues, m \in Metas : AddPassword("storage", v, m)
    \/ \E a \in SupportedAlgorithms : ConfirmAlgorithmChange(a)

SpecAlgorithm == Init /\ [][NextAlgorithm]_vars

\* The notes tab when file operations may raise IOError.
NextNotes ==
    \/ NewNotesStorage
    \/ \E c \in NoteContents : AddNote(c)
    \/ \E k \in 1..MaxNotes, c \in NoteEdits : UpdateNote(k, c)
    \/ \E k \in 1..MaxNotes : DeleteNote(k)

SpecNotes == InitFaults /\ [][NextNotes]_vars

---------------------------------------------------------------------------
(* Views of the files used by the properties below *)

\* The key the key file holds.
KeyOfFile(kf) ==
    IF kf.kind = "raw" THEN kf.raw
    ELSE IF kf.kind = "json" THEN KeyB64Decode(kf.json.key)
    ELSE NoKey

\* The key a blob was sealed under; NoKey for an empty or unsealed blob.
SealingKey(b) ==
    IF b # <<>> /\ b[Len(b)].t = "sealed" THEN b[Len(b)].key ELSE NoKey

\* EncryptionManager() at a later start of the program, over the files as
\* they are; n is the id of the key it would draw.
LaterEngine(st, kf, n) == Engine(st, EM_initialize_encryption(st, kf, n, TRUE))

\* PasswordStorage() constructed afresh over the files as they are.
FreshPasswordStorage(st, kf, pf, n) ==
    PS_object(st, PS_initialize_encryption(st, kf, n, TRUE), pf)

RekeyOps == {"rotate_encryption_key", "update_encryption_algorithm"}

---------------------------------------------------------------------------
(* Properties *)

\* C1: every engine that key loading returns under one of the three
\* supported algorithms encrypts every plaintext p, and decrypting the blob
\* with the same engine gives p back.
C1_RoundTrip ==
    (ns.alive /\ ns.em.encryption_algorithm \in SupportedAlgorithms) =>
        \A p \in Plaintexts, n \in Nonces :
            LET c == EM_encrypt(ns.em, p, NonceBytes(n))
            IN  /\ c.ok
                /\ LET d == EM_decrypt(ns.em, c.val) IN d.ok /\ d.val = p

\* C2: when rotate_encryption_key completes, a freshly constructed
\* PasswordStorage loads exactly the records (ids, values, metadata) the
\* storage held before the rotation.
C2_RotationPreservesRecords ==
    [][(last'.op = "rotate_encryption_key" /\ last'.outcome = "ok") =>
          FreshPasswordStorage(settings', keyFile', pwFile', nextKey' + 1).passwords
              = ps["storage"].passwords]_vars

C2_Witness ==
    /\ last.op = "rotate_encryption_key"
    /\ last.outcome = "ok"
    /\ Len(ps["storage"].passwords) = 2
    /\ ps["storage"].passwords[1].value = Text("pw1")
    /\ ps["storage"].passwords[2].value = Text("pw2")
    /\ KeyOfFile(keyFile) = ps["storage"].cipher.key
    /\ FreshPasswordStorage(settings, keyFile, pwFile, nextKey + 1).passwords
           = ps["storage"].passwords

\* C3: when update_encryption_algorithm(Y) completes on a storage loaded
\* under a supported algorithm X, the storage runs Y under a new key, Y is the
\* configured algorithm, and a freshly constructed PasswordStorage loads
\* exactly the records the storage held before the change.
C3_AlgorithmChangePreservesRecords ==
    [][(/\ last'.op = "update_encryption_algorithm"
        /\ last'.outcome = "ok"
        /\ ps["storage"].encryption_algorithm \in SupportedAlgorithms) =>
          /\ settings' = ps'["storage"].encryption_algorithm
          /\ ps'["storage"].cipher.key # ps["storage"].cipher.key
          /\ FreshPasswordStorage(settings', keyFile', pwFile', nextKey' + 1).passwords
                 = ps["storage"].passwords]_vars

C3_Witness ==
    /\ last.op = "update_encryption_algorithm"
    /\ last.outcome = "ok"
    /\ settings = "chacha20"
    /\ keyFile.kind = "json"
    /\ keyFile.json.algorithm = "chacha20"
    /\ Len(ps["storage"].passwords) = 2
    /\ ps["storage"].passwords[1].value = Text("pw2")
    /\ pwFile.exists
    /\ Len(pwFile.entries) = 2
    /\ SealingKey(pwFile.entries[1].value.b64) = ps["storage"].cipher.key
    /\ FreshPasswordStorage(settings, keyFile, pwFile, nextKey + 1).passwords
           = ps["storage"].passwords

\* C4: when a stored record value does not decrypt under the engine of the
\* storage, rotate_encryption_key and update_encryption_algorithm end in an
\* error and leave the key file and the record file as they were.
C4_AbortOnUndecryptable ==
    [][(/\ last'.op \in RekeyOps
        /\ pwFile.exists
        /\ \E k \in 1..Len(pwFile.entries) :
              ~PS_decrypt_try(ps["storage"], pwFile.entries[k].value).ok) =>
          /\ last'.outcome # "ok"
          /\ keyFile' = keyFile
          /\ pwFile' = pwFile]_vars

\* C5: after rotate_encryption_key or update_encryption_algorithm completes,
\* every value of passwords.json and the blob of secure_notes.json decrypt
\* with the key material now in the key file.
C5_EveryRecordFileReencrypted ==
    (last.op \in RekeyOps /\ last.outcome = "ok") =>
        /\ pwFile.exists =>
              \A k \in 1..Len(pwFile.entries) :
                  PS_decrypt_try(FreshPasswordStorage(settings, keyFile, AbsentFile, nextKey + 1),
                                 pwFile.entries[k].value).ok
        /\ notesFile.exists =>
              EM_decrypt(LaterEngine(settings, keyFile, nextKey + 1), notesFile.data).ok

\* C6: decrypting a blob sealed under one key with an engine that holds
\* another key raises, in PasswordStorage._decrypt (first conjunct) and in
\* EncryptionManager.decrypt (second conjunct); no value is handed back.
C6_CrossKeyDecryptRaises ==
    /\ \A s \in Slots :
          (ps[s].alive /\ pwFile.exists) =>
              \A k \in 1..Len(pwFile.entries) :
                  LET v == pwFile.entries[k].value
                  IN  SealingKey(v.b64) \notin {NoKey, ps[s].cipher.key} =>
                          ~PS_decrypt(ps[s], v).ok
    /\ (ns.alive /\ probe.made /\ SealingKey(probe.blob) \notin {NoKey, ns.em.cipher.key}) =>
          ~EM_decrypt(ns.em, probe.blob).ok

\* C7: key loading over a structured key file builds the engine for the
\* algorithm the file names, with the key the file holds, whatever the
\* configured algorithm; it leaves the key file as it was, and blobs sealed
\* earlier under that key still decrypt.
C7_KeyFileAlgorithmWins ==
    [][(last'.op = "NotesStorage" /\ keyFile.kind = "json") =>
          /\ last'.outcome = "ok"
          /\ ns'.em.encryption_algorithm = keyFile.json.algorithm
          /\ ns'.em.cipher.key = KeyOfFile(keyFile)
          /\ keyFile' = keyFile
          /\ (probe.made /\ SealingKey(probe.blob) = KeyOfFile(keyFile)) =>
                LET d == EM_decrypt(ns'.em, probe.blob) IN d.ok /\ d.val = probe.pt]_vars

\* C8: key loading over a key file that holds a raw Fernet token alone
\* returns a Fernet engine on that token, whatever the configured algorithm:
\* it encrypts as Fernet does, decrypts what it encrypts, and decrypts the
\* blobs sealed earlier under that token.
C8_LegacyKeyFileGivesTokenEngine ==
    [][(last'.op = "NotesStorage" /\ keyFile.kind = "raw" /\ keyFile.raw.kind = "token") =>
          /\ last'.outcome = "ok"
          /\ ns'.em.cipher = Fernet(keyFile.raw).val
          /\ keyFile' = keyFile
          /\ \A p \in Plaintexts, n \in Nonces :
                LET c == EM_encrypt(ns'.em, p, NonceBytes(n))
                IN  /\ c.ok
                    /\ c.val = IF p = <<>> THEN <<>>
                               ELSE CipherEncrypt1(Fernet(keyFile.raw).val, p).val
                    /\ LET d == EM_decrypt(ns'.em, c.val) IN d.ok /\ d.val = p
          /\ (probe.made /\ SealingKey(probe.blob) = keyFile.raw) =>
                LET d == EM_decrypt(ns'.em, probe.blob) IN d.ok /\ d.val = probe.pt]_vars

\* C9: with the key file absent, key loading under each of the three
\* supported algorithms draws a fresh key and leaves a structured JSON key
\* file holding that key and the algorithm.
C9_FreshKeyStructured ==
    [][(/\ last'.op = "NotesStorage"
        /\ keyFile.kind = "absent"
        /\ settings \in SupportedAlgorithms) =>
          /\ last'.outcome = "ok"
          /\ last'.fresh
          /\ keyFile'.kind = "json"
          /\ keyFile'.json.algorithm = settings
          /\ KeyOfFile(keyFile') = ns'.em.cipher.key]_vars

\* C9, as the code has it: with the key file absent, key loading draws a
\* fresh key for the configured supported algorithm and writes it to the key
\* file: for aes-gcm and chacha20 as structured JSON (key, algorithm, salt,
\* nonce), for fernet as the raw token alone.
C9_FreshKeyWritten ==
    [][(/\ last'.op = "NotesStorage"
        /\ keyFile.kind = "absent"
        /\ settings \in SupportedAlgorithms) =>
          /\ last'.outcome = "ok"
          /\ last'.fresh
          /\ ns'.em.cipher.key.id = nextKey'
          /\ IF settings = "fernet"
             THEN keyFile' = RawKeyFile(ns'.em.cipher.key)
             ELSE /\ keyFile'.kind = "json"
                  /\ keyFile'.json.algorithm = settings
                  /\ KeyOfFile(keyFile') = ns'.em.cipher.key
                  /\ keyFile'.json.salt # NoField
                  /\ keyFile'.json.nonce # NoField]_vars

C9_Witness ==
    /\ last.op = "NotesStorage"
    /\ last.outcome = "ok"
    /\ last.fresh
    /\ settings = "fernet"
    /\ ns.em.cipher.kind = "Fernet"
    /\ keyFile = RawKeyFile(ns.em.cipher.key)
    /\ ns.em.cipher.key.id = nextKey

\* C10: whenever key loading returns an engine on a freshly drawn key, the
\* key file holds that key, and the engine a later key load returns decrypts
\* everything the first engine encrypts.
C10_FreshKeyIsPersisted ==
    (last.op = "NotesStorage" /\ last.outcome = "ok" /\ last.fresh) =>
        /\ KeyOfFile(keyFile) = ns.em.cipher.key
        /\ \A p \in Plaintexts, n \in Nonces :
              LET c == EM_encrypt(ns.em, p, NonceBytes(n))
              IN  c.ok =>
                    LET d == EM_decrypt(LaterEngine(settings, keyFile, nextKey + 1), c.val)
                    IN  d.ok /\ d.val = p

\* The cipher object is of the kind the algorithm tag names.
CipherMatchesTag(algorithm, cipher) ==
    \/ algorithm = "fernet" /\ cipher.kind = "Fernet"
    \/ algorithm = "aes-gcm" /\ cipher.kind = "AESGCM"
    \/ algorithm = "chacha20" /\ cipher.kind = "ChaCha20Poly1305"

\* C11: in every state, each live EncryptionManager and PasswordStorage
\* whose algorithm tag is one of the three holds a cipher of the kind the tag
\* names, so encrypt and decrypt dispatch to a cipher of the matching kind.
C11_CipherMatchesTag ==
    /\ (ns.alive /\ ns.em.encryption_algorithm \in SupportedAlgorithms) =>
          CipherMatchesTag(ns.em.encryption_algorithm, ns.em.cipher)
    /\ \A s \in Slots :
          (ps[s].alive /\ ps[s].encryption_algorithm \in SupportedAlgorithms) =>
              CipherMatchesTag(ps[s].encryption_algorithm, ps[s].cipher)

\* The calls of PasswordStorage that end in _save_passwords.
SaveOps == RekeyOps \cup {"add_password", "update_password", "delete_password"}

\* C12: right after a save that succeeded, loading the file with the same
\* engine gives exactly the records that were saved, for passwords.json
\* (_save_passwords / _load_passwords) and for secure_notes.json
\* (_save_notes / _load_notes).
C12_SaveThenLoad ==
    /\ (last.op \in SaveOps /\ last.outcome = "ok") =>
          /\ pwFile.exists
          /\ PS_load_passwords(ps["storage"], pwFile) = ps["storage"].passwords
    /\ (last.op = "add_note" /\ last.outcome = "ok") =>
          /\ notesFile.exists
          /\ NS_load_notes(ns.em, notesFile) = ns.notes

C12_Witness ==
    /\ last.op = "add_password"
    /\ last.outcome = "ok"
    /\ Len(ps["storage"].passwords) = 2
    /\ ps["storage"].passwords[1].value = Text("pw1")
    /\ ps["storage"].passwords[2].value = Text("pw2")
    /\ ps["storage"].encryption_algorithm = "chacha20"
    /\ PS_load_passwords(ps["storage"], pwFile) = ps["storage"].passwords
    /\ ns.alive
    /\ Len(ns.notes) = 1
    /\ notesFile.exists
    /\ NS_load_notes(ns.em, notesFile) = ns.notes

\* C13: a save is atomic with respect to interruption: when the process is
\* killed during a save, each record file afterwards holds its complete
\* previous contents or complete new contents, never an empty or half-written
\* file.
C13_SaveIsAtomic ==
    [][last'.outcome = "interrupted" =>
          /\ (pwFile' = pwFile \/ (pwFile'.exists /\ ~pwFile'.torn))
          /\ (notesFile' = notesFile \/ (notesFile'.exists /\ notesFile'.data # <<>>))]_vars

\* The plaintext a stored value seals; <<>> for an empty or unsealed value.
SealedPlaintext(v) ==
    IF v.b64 # <<>> /\ v.b64[Len(v.b64)].t = "sealed" THEN v.b64[Len(v.b64)].pt ELSE <<>>

\* The texts _decrypt and _load_passwords put in place of a value that did
\* not decrypt.
Placeholders == {DecryptPlaceholder, LoadPlaceholder}

\* C14: a value that failed to decrypt is never turned into an ordinary
\* plaintext: no save, rotation or algorithm change writes a placeholder text
\* as the stored value of a record (no user enters such a text here).
C14_NoPlaceholderStored ==
    pwFile.exists =>
        \A k \in 1..Len(pwFile.entries) :
            \A t \in Placeholders :
                SealedPlaintext(pwFile.entries[k].value) # StrEncode(Text(t))

\* The record file holds what _save_passwords of this storage writes.
Rewritten(self, file) ==
    /\ file.exists
    /\ ~file.torn
    /\ \E nonces \in NonceDraws(self) :
          LET enc == PS_encrypted_passwords(self, nonces)
          IN  enc.ok /\ enc.val = file.entries

\* C15: when rotate_encryption_key or update_encryption_algorithm has
\* replaced the key file and the record file is then not rewritten, the call
\* ends in an error instead of returning normally.
C15_PartialRotationSurfaces ==
    [][(/\ last'.op \in RekeyOps
        /\ keyFile' # keyFile
        /\ ~Rewritten(ps'["storage"], pwFile')) =>
          last'.outcome # "ok"]_vars

\* C16: update_encryption_algorithm with a tag outside the three supported
\* ones ends in ValueError and leaves the instance (algorithm tag, cipher,
\* records), the key file, the record file and the settings file as they
\* were; no key is drawn and nothing is written.
C16_UnsupportedTagRejected ==
    [][UpdateEncryptionAlgorithm("storage", UnsupportedTag) =>
          /\ last'.op = "update_encryption_algorithm"
          /\ last'.outcome = "ValueError"
          /\ UNCHANGED <<ps, keyFile, pwFile, notesFile, settings, nextKey, exchangeFile>>]_vars

C16_Witness ==
    /\ last.op = "update_encryption_algorithm"
    /\ last.outcome = "ValueError"
    /\ ps["storage"].alive
    /\ ps["storage"].encryption_algorithm = "aes-gcm"
    /\ Len(ps["storage"].passwords) = 2
    /\ ps["storage"].passwords[1].value = Text("pw1")
    /\ settings = "aes-gcm"
    /\ pwFile.exists
    /\ Len(pwFile.entries) = 2

\* C17: key loading under a configured tag outside the three supported ones
\* is rejected: it ends in an error, returns no engine, draws no key and
\* leaves the key file as it was, whether the key file is absent, a raw token
\* or structured.
C17_UnsupportedTagNoEngine ==
    [][(last'.op = "NotesStorage" /\ settings \notin SupportedAlgorithms) =>
          /\ last'.outcome # "ok"
          /\ ~last'.fresh
          /\ ns' = ns
          /\ nextKey' = nextKey
          /\ keyFile' = keyFile]_vars

\* C18: under every algorithm tag and cipher, encrypting empty input gives
\* empty output and decrypting empty input gives empty output, with no cipher
\* call (a cipher call returns a non-empty blob or raises): for
\* EncryptionManager.encrypt/decrypt on bytes and for
\* PasswordStorage._encrypt/_decrypt on strings.
C18_EmptyInputShortcut ==
    /\ ns.alive =>
          \A n \in Nonces :
              LET e == EM_encrypt(ns.em, <<>>, NonceBytes(n))
                  d == EM_decrypt(ns.em, <<>>)
              IN  e.ok /\ e.val = <<>> /\ d.ok /\ d.val = <<>>
    /\ \A s \in Slots :
          ps[s].alive =>
              \A n \in Nonces :
                  LET e == PS_encrypt(ps[s], EmptyStr, NonceBytes(n))
                      d == PS_decrypt_try(ps[s], EmptyStr)
                  IN  e.ok /\ e.val = EmptyStr /\ d.ok /\ d.val = EmptyStr

C18_Witness ==
    /\ last.op = "add_password"
    /\ last.outcome = "ok"
    /\ ps["storage"].encryption_algorithm = "aes-gcm"
    /\ ps["storage"].cipher.kind = "Fernet"
    /\ Len(ps["storage"].passwords) = 1
    /\ ps["storage"].passwords[1].value = EmptyStr
    /\ pwFile.exists
    /\ pwFile.entries[1].value = EmptyStr
    /\ ns.alive
    /\ ns.em.cipher.kind = "Fernet"
    /\ ns.em.encryption_algorithm = "aes-gcm"

\* The storage with the values of its records replaced by `values`.
WithValues(self, values) ==
    [self EXCEPT !.passwords =
        [k \in 1..Len(self.passwords) |-> [self.passwords[k] EXCEPT !.value = values[k]]]]

\* C19: export_passwords with include_values=False writes one entry per
\* record with the record's id and metadata and the redaction marker as its
\* value; a vault that differs only in its password values gives the same
\* export; the in-memory records and the record file are left unchanged.
C19_RedactedExport ==
    [][ExportPasswords("storage", FALSE) =>
          /\ last'.outcome = "ok"
          /\ exchangeFile'.exists
          /\ Len(exchangeFile'.entries) = Len(ps["storage"].passwords)
          /\ \A k \in 1..Len(ps["storage"].passwords) :
                /\ exchangeFile'.entries[k].value = Text(Redacted)
                /\ exchangeFile'.entries[k].id = ps["storage"].passwords[k].id
                /\ exchangeFile'.entries[k].meta = ps["storage"].passwords[k].meta
          /\ \A values \in [1..Len(ps["storage"].passwords) -> ExchangeValues] :
                PS_export_data(WithValues(ps["storage"], values), FALSE)
                    = exchangeFile'.entries
          /\ UNCHANGED <<ps, pwFile, keyFile, settings>>]_vars

C19_Witness ==
    /\ last.op = "export_passwords"
    /\ last.outcome = "ok"
    /\ Len(ps["storage"].passwords) = 2
    /\ ps["storage"].passwords[1].value = Text("pw1")
    /\ ps["storage"].passwords[2].value = EmptyStr
    /\ pwFile.exists
    /\ Len(pwFile.entries) = 2
    /\ exchangeFile.exists
    /\ Len(exchangeFile.entries) = 2
    /\ exchangeFile.entries[1].value = Text(Redacted)
    /\ exchangeFile.entries[2].value = Text(Redacted)

\* C20: import_passwords adds no record whose value in the file is the
\* redaction marker, adds every other entry of the file, in order, under a
\* fresh id, and returns exactly the number of records it added.
C20_ImportSkipsRedacted ==
    [][(last'.op = "import_passwords" /\ exchangeFile.exists) =>
          LET kept == SelectSeq(exchangeFile.entries, NotRedacted)
              old == ps["storage"].passwords
              new == ps'["storage"].passwords
          IN  /\ last'.outcome = "ok"
              /\ Len(new) = Len(old) + Len(kept)
              /\ SubSeq(new, 1, Len(old)) = old
              /\ \A j \in 1..Len(kept) :
                    /\ new[Len(old) + j].value = kept[j].value
                    /\ new[Len(old) + j].meta = kept[j].meta
                    /\ new[Len(old) + j].id > nextId
                    /\ new[Len(old) + j].value # Text(Redacted)
              /\ returned' = Len(new) - Len(old)]_vars

\* The bytes of passwords.json: json.dump writes the list of entries as one
\* JSON text, the ids and metadata as they are and each value as the base64
\* text _encrypt returned.
PS_file_bytes(file) == JsonBytes(file.entries)

\* The bytes are one encrypted blob under `key`: a sealed chunk, preceded by
\* nothing but the nonce the AEAD ciphers put in front.
IsEncryptedBlob(b, key) ==
    /\ b # <<>>
    /\ b[Len(b)].t = "sealed"
    /\ b[Len(b)].key = key
    /\ Len(b) \in {1, NonceLen + 1}
    /\ \A i \in 1..(Len(b) - 1) : b[i].t = "byte"

\* C21: after every save that succeeded, each record file consists entirely
\* of one encrypted blob of the serialized record set under the current key:
\* passwords.json (first conjunct) and secure_notes.json (second conjunct);
\* nothing of a record is stored in plaintext or encrypted field by field.
C21_RecordFilesAreOneBlob ==
    /\ (last.op \in SaveOps /\ last.outcome = "ok" /\ pwFile.exists) =>
          IsEncryptedBlob(PS_file_bytes(pwFile), ps["storage"].cipher.key)
    /\ (last.op = "add_note" /\ last.outcome = "ok" /\ notesFile.exists) =>
          /\ IsEncryptedBlob(notesFile.data, ns.em.cipher.key)
          /\ SealedPlaintext(B64Encode(notesFile.data)) = JsonBytes(ns.notes)

\* C22: NotesStorage() over a notes file whose contents do not decrypt with
\* the engine it built does not return normally: whenever the constructor
\* returns, the file was absent, empty, or decrypted and parsed as a whole.
C22_NotesLoadFailsAsAWhole ==
    [][(last'.op = "NotesStorage" /\ last'.outcome = "ok"
        /\ notesFile.exists /\ notesFile.data # <<>>) =>
          LET d == EM_decrypt(ns'.em, notesFile.data)
          IN  d.ok /\ d.val = JsonBytes(ns'.notes)]_vars

\* What a load of `file` by the storage `self` is to give when the text
\* `placeholder` stands for each value that does not decrypt: one record per
\* entry, ids and metadata as in the file.
LoadedWith(self, file, placeholder) ==
    [k \in 1..Len(file.entries) |->
        LET r == PS_decrypt_try(self, file.entries[k].value)
        IN  [file.entries[k] EXCEPT !.value = IF r.ok THEN r.val ELSE Text(placeholder)]]

C24_GarbageKeyFileKept ==
    [][(last'.op = "NotesStorage" /\ keyFile = RawKeyFile(Garbage)) =>
          /\ last'.outcome = "ok"
          /\ ~last'.fresh
          /\ nextKey' = nextKey
          /\ keyFile' = keyFile
          /\ ns'.em.cipher.key = Garbage
          /\ \A p \in Plaintexts, n \in Nonces : EM_encrypt(ns'.em, p, NonceBytes(n)).ok]_vars

\* C24, as the code has it: Fernet rejects the bytes, and key loading takes
\* the generate path.  Under a supported configured algorithm it draws a new
\* key, builds the cipher of that algorithm on it, overwrites the key file
\* with the new key and returns without raising; under any other tag it
\* raises UnboundLocalError, returns no engine and leaves the key file as it
\* was.
C24_GarbageKeyFileReplaced ==
    [][(last'.op = "NotesStorage" /\ keyFile = RawKeyFile(Garbage)) =>
          IF settings \in SupportedAlgorithms
          THEN /\ last'.outcome = "ok"
               /\ last'.fresh
               /\ nextKey' = nextKey + 1
               /\ ns'.em.cipher.key.id = nextKey'
               /\ ns'.em.encryption_algorithm = settings
               /\ CipherMatchesTag(settings, ns'.em.cipher)
               /\ keyFile' # keyFile
               /\ KeyOfFile(keyFile') = ns'.em.cipher.key
          ELSE /\ last'.outcome = "UnboundLocalError"
               /\ ns' = ns
               /\ nextKey' = nextKey
               /\ keyFile' = keyFile]_vars

C24_Witness ==
    /\ last.op = "NotesStorage"
    /\ last.found = "garbage"
    /\ last.outcome = "ok"
    /\ last.fresh
    /\ settings = "aes-gcm"
    /\ ns.alive
    /\ ns.em.cipher.kind = "AESGCM"
    /\ ns.em.cipher.key = TokenBytes32(nextKey)
    /\ keyFile.kind = "json"
    /\ KeyOfFile(keyFile) = ns.em.cipher.key

\* The keys the values of a record file are sealed under.
KeysOfRecordFile(file) ==
    {SealingKey(file.entries[k].value.b64) : k \in 1..Len(file.entries)} \ {NoKey}

\* C25: whenever rotate_encryption_key or update_encryption_algorithm
\* rewrites the record file, the key file already holds the key the file is
\* written under, also when a file write fails: the record file is never left
\* sealed under a key that the key file does not hold.
C25_KeyStoredBeforeRewrite ==
    [][(last'.op \in RekeyOps /\ pwFile' # pwFile) =>
          KeysOfRecordFile(pwFile') \subseteq {KeyOfFile(keyFile')}]_vars

\* The ids of the records a record file or a storage holds.
RecordIds(entries) == {entries[k].id : k \in 1..Len(entries)}

\* The calls of PasswordStorage that change one record and save.
RecordOps == {"add_password", "update_password", "delete_password"}

\* C26: with several PasswordStorage objects alive over one vault, a record
\* that is in the record file is still in it after an add, update or delete
\* made through any of them, unless it is the record that very call deleted.
C26_NoLostRecord ==
    [][(last'.op \in RecordOps /\ last'.outcome = "ok") =>
          LET deleted == RecordIds(ps[last'.slot].passwords)
                             \ RecordIds(ps'[last'.slot].passwords)
          IN  (RecordIds(pwFile.entries) \ deleted) \subseteq RecordIds(pwFile'.entries)]_vars

\* C27: every save a live PasswordStorage or NotesStorage makes writes data
\* that decrypts with the key the key file holds at that time, also after the
\* settings tab has rotated the key through a storage of its own.
C27_SavesUnderStoredKey ==
    [][(last'.op \in RecordOps \cup {"add_note"} /\ last'.outcome = "ok") =>
          /\ (pwFile' # pwFile) =>
                \A k \in 1..Len(pwFile'.entries) :
                    PS_decrypt_try(FreshPasswordStorage(settings', keyFile', AbsentFile,
                                                        nextKey' + 1),
                                   pwFile'.entries[k].value).ok
          /\ (notesFile' # notesFile) =>
                EM_decrypt(LaterEngine(settings', keyFile', nextKey' + 1),
                           notesFile'.data).ok]_vars

\* C28: when the settings tab's change of the algorithm completes, a
\* PasswordStorage constructed afterwards loads exactly the records (ids,
\* values, metadata) that one constructed before the change loaded.
C28_HandlerPreservesRecords ==
    [][(last'.op = "confirm_algorithm_change" /\ last'.outcome = "ok") =>
          FreshPasswordStorage(settings', keyFile', pwFile', nextKey' + 1).passwords
              = FreshPasswordStorage(settings, keyFile, pwFile, nextKey + 1).passwords]_vars

\* C29: whenever add_password, update_password or delete_password returns
\* normally, the record file holds exactly the in-memory records of the
\* instance, also where the write of the file can fail.
C29_ReturnMeansSaved ==
    (last.op \in RecordOps /\ last.outcome = "ok") =>
        Rewritten(ps[last.slot], pwFile)

\* The calls of NotesStorage that change the collection and save.
NoteOps == {"add_note", "update_note", "delete_note"}

\* C30: when add_note, update_note or delete_note ends in the exception
\* _save_notes raised, the in-memory notes are as before the call, and if
\* collection and file agreed before the call they still agree.
C30_FailedSaveLeavesNotes ==
    [][(last'.op \in NoteOps /\ last'.outcome # "ok") =>
          /\ ns'.notes = ns.notes
          /\ (NS_load_notes(ns.em, notesFile) = ns.notes) =>
                (NS_load_notes(ns'.em, notesFile') = ns'.notes)]_vars

====
